---- MODULE Spec2Model ----
(***************************************************************************)
(* Expression type-checking pass of src/pass/expr.c.                       *)
(*                                                                         *)
(* The pass is the post-order visit callback type_expr.  The model keeps   *)
(* the walker's pending subtrees (children already visited, parent not yet *)
(* visited) as a stack of node summaries and the most recent visit in      *)
(* `last`.  A visit pops the children of the node from the stack, runs the *)
(* handler the dispatcher selects and, when the node is accepted, pushes   *)
(* the node.  Type nodes are values: a tuple whose first element is the    *)
(* token id and whose remaining elements are the children in order.        *)
(***************************************************************************)
EXTENDS Integers, Sequences, FiniteSets, TLC

VARIABLES stack, last

vars == <<stack, last>>

\* ---------------------------------------------------------------- bounds
\* total number of leaves of the types held by the pending subtrees
\* (children visited, parent not yet visited)
MaxLeaves == 3
\* number of children of a SEQ or TUPLE
MaxArity == 3
\* leaves of the type of an operand of an operator, a call, a return, a loop
\* or a declaration (sequences, tuples, conditionals and member accesses take
\* operands of any size the leaf budget allows)
MaxOperand == 2
\* largest positional index tried on a DOT
MaxIndex == 3

\* ------------------------------------------------------------- AST nodes
\* absent type slot (ast_type(..) == NULL)
NULL == <<"NULL">>
NONE == <<"NONE">>
ERROR == <<"ERROR">>

ast_id(n) == n[1]
ast_from(id) == <<id>>
ast_from_string(s) == <<"ID", s>>
\* ast_add prepends a child, ast_append appends it
ast_add(parent, c) == <<parent[1]>> \o <<c>> \o Tail(parent)
ast_append(parent, c) == Append(parent, c)
ast_child(n) == n[2]
ast_childidx(n, i) == n[i + 2]
ast_name(n) == n[2]

\* number of leaves of a type: the types joined by UNIONTYPE and TUPLETYPE
RECURSIVE TypeSize(_)
TypeSize(t) ==
  IF ast_id(t) \in {"UNIONTYPE", "TUPLETYPE"}
  THEN TypeSize(t[2]) + TypeSize(t[3])
  ELSE 1

\* ------------------------------------------------------- nominal oracle
nominal_type(package, name) ==
  <<"NOMINAL", package, ast_from_string(name), NONE, NONE, NONE>>

nominal_builtin(name) == nominal_type(NONE, name)

nominal_name(t) == ast_name(t[3])

BuiltinNames ==
  {"Bool", "None", "String", "IntLiteral", "FloatLiteral", "Integer",
   "Arithmetic"}

\* nominal subtyping between the names used by the pass
NominalSub ==
  {<<"IntLiteral", "Integer">>, <<"IntLiteral", "Arithmetic">>,
   <<"Integer", "Arithmetic">>, <<"FloatLiteral", "Arithmetic">>}

\* -------------------------------------------------------- subtype oracle
RECURSIVE is_subtype(_, _)
is_subtype(sub, super) ==
  IF ast_id(sub) = "UNIONTYPE"
  THEN is_subtype(sub[2], super) /\ is_subtype(sub[3], super)
  ELSE IF ast_id(super) = "UNIONTYPE"
  THEN is_subtype(sub, super[2]) \/ is_subtype(sub, super[3])
  ELSE IF ast_id(sub) = "TUPLETYPE" /\ ast_id(super) = "TUPLETYPE"
  THEN is_subtype(sub[2], super[2]) /\ is_subtype(sub[3], super[3])
  ELSE IF ast_id(sub) = "NOMINAL" /\ ast_id(super) = "NOMINAL"
  THEN \/ nominal_name(sub) = nominal_name(super)
       \/ <<nominal_name(sub), nominal_name(super)>> \in NominalSub
  ELSE ast_id(sub) = ast_id(super) /\ sub = super

is_eqtype(a, b) == is_subtype(a, b) /\ is_subtype(b, a)

\* ----------------------------------------------------- capability oracle
Caps == {"iso", "trn", "ref", "val", "box", "tag"}

CapSub ==
  {<<"iso", "trn">>, <<"iso", "ref">>, <<"iso", "val">>, <<"iso", "box">>,
   <<"iso", "tag">>, <<"trn", "ref">>, <<"trn", "val">>, <<"trn", "box">>,
   <<"trn", "tag">>, <<"ref", "box">>, <<"ref", "tag">>, <<"val", "box">>,
   <<"val", "tag">>, <<"box", "tag">>}

is_cap_sub_cap(sub, super) == sub = super \/ <<sub, super>> \in CapSub

cap_for_fun(fun) ==
  IF ast_id(fun) = "FUN" THEN ast_id(ast_child(fun)) ELSE "tag"

\* ------------------------------------------------------ handler results
\* ret: "OK" (handler returned true), "FATAL" (returned false), "UNDEF"
\* (the handler dereferenced an absent type or ran into assert(0): the
\* pass has no defined result).  set: ast_settype was called with `type`.
Accept(t) == [ret |-> "OK", set |-> TRUE, type |-> t, diags |-> <<>>]
AcceptUntyped == [ret |-> "OK", set |-> FALSE, type |-> NULL, diags |-> <<>>]
Reject(d) == [ret |-> "FATAL", set |-> FALSE, type |-> NULL, diags |-> d]
Undefined == [ret |-> "UNDEF", set |-> FALSE, type |-> NULL, diags |-> <<>>]

\* --------------------------------------------------- type-algebra helpers
def_before_use(def, use) ==
  ~(def[1] > use[1] \/ (def[1] = use[1] /\ def[2] > use[2]))

RECURSIVE tuple_index(_, _)
tuple_index(ast, index) ==
  IF index > 1
  THEN LET right == ast_childidx(ast, 1)
       IN IF ast_id(right) # "TUPLETYPE" THEN NULL
          ELSE tuple_index(right, index - 1)
  ELSE IF index = 0 THEN ast_child(ast)
  ELSE LET r == ast_childidx(ast, 1)
       IN IF ast_id(r) = "TUPLETYPE" THEN ast_child(r) ELSE r

type_builtin(type, name) ==
  IF is_subtype(type, nominal_builtin(name)) THEN type ELSE NULL

type_bool(type) == type_builtin(type, "Bool")
type_int(type) == type_builtin(type, "Integer")
type_arithmetic(type) == type_builtin(type, "Arithmetic")

type_int_or_bool(type) ==
  IF type_bool(type) # NULL THEN type_bool(type) ELSE type_int(type)

type_super(l_type, r_type) ==
  IF l_type = NULL \/ r_type = NULL THEN NULL
  ELSE IF is_subtype(l_type, r_type) THEN r_type
  ELSE IF is_subtype(r_type, l_type) THEN l_type
  ELSE NULL

\* a faulty type_union: the operands of the fresh UNIONTYPE change places
type_union_swapped(l_type, r_type) ==
  IF type_super(l_type, r_type) # NULL THEN type_super(l_type, r_type)
  ELSE ast_add(ast_add(ast_from("UNIONTYPE"), l_type), r_type)

type_union(l_type, r_type) ==
  IF type_super(l_type, r_type) # NULL THEN type_super(l_type, r_type)
  ELSE ast_add(ast_add(ast_from("UNIONTYPE"), r_type), l_type)

\* the TYPES node of a method type: the type slot of every PARAM
RECURSIVE param_types(_, _)
param_types(types, params) ==
  IF params = <<>> THEN types
  ELSE param_types(ast_append(types, ast_childidx(Head(params), 1)),
                   Tail(params))

\* a faulty type_for_fun: the TYPES node of a parameter list is not added
type_for_fun_no_types(ast) ==
  LET cap == ast_child(ast)
      id == ast_childidx(ast, 1)
      typeparams == ast_childidx(ast, 2)
      params == ast_childidx(ast, 3)
      result == ast_childidx(ast, 4)
      throws == ast_childidx(ast, 5)
      f1 == ast_add(ast_from(ast_id(ast)), ast_from("NONE"))
      f2 == ast_add(f1, throws)
      f3 == ast_add(f2, result)
      f4 == IF ast_id(params) = "PARAMS" THEN f3 ELSE ast_add(f3, params)
      f5 == ast_add(f4, typeparams)
      f6 == ast_add(f5, id)
  IN ast_add(f6, cap)

type_for_fun(ast) ==
  LET cap == ast_child(ast)
      id == ast_childidx(ast, 1)
      typeparams == ast_childidx(ast, 2)
      params == ast_childidx(ast, 3)
      result == ast_childidx(ast, 4)
      throws == ast_childidx(ast, 5)
      f1 == ast_add(ast_from(ast_id(ast)), ast_from("NONE"))
      f2 == ast_add(f1, throws)
      f3 == ast_add(f2, result)
      f4 == IF ast_id(params) = "PARAMS"
            THEN ast_add(f3, param_types(ast_from("TYPES"), Tail(params)))
            ELSE ast_add(f3, params)
      f5 == ast_add(f4, typeparams)
      f6 == ast_add(f5, id)
  IN ast_add(f6, cap)

\* ------------------------------------------------------------- l-values
\* ast: the kinds of a subtree, <<kind, child, ...>>
RECURSIVE is_lvalue(_)
is_lvalue(ast) ==
  IF ast_id(ast) \in {"REFERENCE", "DOT"} THEN TRUE
  ELSE IF ast_id(ast) = "TUPLE"
  THEN \A i \in 2..Len(ast) : is_lvalue(ast[i])
  ELSE FALSE

\* ------------------------------------------------------------- handlers
\* a faulty expr_field: the initialiser is not compared with the declared type
expr_field_unchecked(type, init, init_type) ==
  IF ast_id(type) = "NONE" /\ ast_id(init) = "NONE"
  THEN Reject(<<"field/param needs a type or an initialiser">>)
  ELSE IF ast_id(type) = "NONE" THEN Accept(init_type)
  ELSE Accept(type)

expr_field(type, init, init_type) ==
  IF ast_id(type) = "NONE" /\ ast_id(init) = "NONE"
  THEN Reject(<<"field/param needs a type or an initialiser">>)
  ELSE IF ast_id(type) = "NONE" THEN Accept(init_type)
  ELSE IF ast_id(init) # "NONE" /\ init_type = NULL THEN Undefined
  ELSE IF ast_id(init) # "NONE" /\ ~is_subtype(init_type, type)
  THEN Reject(<<"field/param initialiser is not a subtype of the field/param type">>)
  ELSE Accept(type)

expr_literal(name) ==
  IF name \notin BuiltinNames THEN Reject(<<>>)
  ELSE Accept(nominal_builtin(name))

\* def: the enclosing type declaration <<kind, id, typeparams>>
RECURSIVE this_typeargs(_, _)
this_typeargs(typeargs, typeparams) ==
  IF typeparams = <<>> THEN typeargs
  ELSE this_typeargs(
         ast_append(typeargs,
                    nominal_type(NONE, ast_name(ast_child(Head(typeparams))))),
         Tail(typeparams))

expr_this(def, rcap) ==
  LET id == ast_child(def)
      typeparams == ast_childidx(def, 1)
      n1 == ast_add(ast_from("NOMINAL"), ast_from("NONE"))
      n2 == ast_add(n1, ast_from(rcap))
      n3 == IF ast_id(typeparams) = "TYPEPARAMS"
            THEN ast_add(n2, this_typeargs(ast_from("TYPEARGS"),
                                           Tail(typeparams)))
            ELSE ast_add(n2, ast_from("NONE"))
      n4 == ast_add(n3, ast_from_string(ast_name(id)))
  IN Accept(ast_add(n4, ast_from("NONE")))

\* def: [kind, pos, type, node] found by ast_get, kind "NULL" when absent
expr_reference(def, use, parent) ==
  IF def.kind = "NULL"
  THEN Reject(<<"can't find declaration of '%s'">>)
  ELSE IF def.kind = "PACKAGE"
  THEN IF parent # "DOT"
       THEN Reject(<<"a package can only appear as a prefix to a type">>)
       ELSE AcceptUntyped
  ELSE IF def.kind \in {"TYPE", "CLASS", "ACTOR"}
  THEN Accept(nominal_type(NONE, ast_name(ast_child(def.node))))
  ELSE IF def.kind \in {"FVAR", "FLET", "PARAM"}
  THEN IF ~def_before_use(def.pos, use)
       THEN Reject(<<"declaration of '%s' appears after use",
                     "declaration of '%s' appears here">>)
       ELSE Accept(def.type)
  ELSE IF def.kind \in {"NEW", "BE", "FUN"}
  THEN Accept(type_for_fun(def.node))
  ELSE IF def.kind = "IDSEQ"
  THEN IF ~def_before_use(def.pos, use)
       THEN Reject(<<"declaration of '%s' appears after use",
                     "declaration of '%s' appears here">>)
       ELSE Reject(<<"not implemented (reference local)">>)
  ELSE Undefined

\* right: <<"ID", name>> or <<"INT", index>>; found: the type name exists in
\* the package named by left
expr_dot(type, right, found) ==
  IF ast_id(right) = "ID"
  THEN IF type = NULL
       THEN IF ~found
            THEN Reject(<<"can't find type '%s' in package '%s'">>)
            ELSE Accept(nominal_type(ast_from_string("pkg"), ast_name(right)))
       ELSE Reject(<<"not implemented (dot)">>)
  ELSE IF ast_id(right) = "INT"
  THEN IF type = NULL \/ ast_id(type) # "TUPLETYPE"
       THEN Reject(<<"member by position can only be used on a tuple">>)
       ELSE IF tuple_index(type, right[2]) = NULL
       THEN Reject(<<"tuple index is out of bounds">>)
       ELSE Accept(tuple_index(type, right[2]))
  ELSE Undefined

expr_qualify == Reject(<<"not implemented (qualify)">>)

expr_identity(l_type, r_type) ==
  IF type_super(l_type, r_type) = NULL
  THEN Reject(<<"left and right side must have related types">>)
  ELSE expr_literal("Bool")

expr_compare(left, right) ==
  LET l_type == type_arithmetic(left)
      r_type == type_arithmetic(right)
      type == type_super(l_type, r_type)
  IN IF type = NULL /\ ~is_subtype(right, left)
     THEN Reject(<<"right side must be a subtype of left side">>)
     ELSE Accept(nominal_builtin("Bool"))

\* a faulty expr_order: no arithmetic path, the right type must be a subtype
\* of the left type
expr_order_subtype_only(left, right) ==
  IF ~is_subtype(right, left)
  THEN Reject(<<"right side must be a subtype of left side">>)
  ELSE Accept(nominal_builtin("Bool"))

expr_order(left, right) ==
  LET l_type == type_arithmetic(left)
      r_type == type_arithmetic(right)
      type == type_super(l_type, r_type)
  IN IF type = NULL /\ ~is_subtype(right, left)
     THEN Reject(<<"right side must be a subtype of left side">>)
     ELSE Accept(nominal_builtin("Bool"))

\* a faulty expr_arithmetic: the type of the left side is attached before the
\* join is looked for
expr_arithmetic_eager(left, right) ==
  LET l_type == type_arithmetic(left)
      r_type == type_arithmetic(right)
      type == type_super(l_type, r_type)
  IN IF type = NULL
     THEN [ret |-> "FATAL", set |-> l_type # NULL, type |-> l_type,
           diags |-> <<"left and right side must have related arithmetic types">>]
     ELSE Accept(type)

expr_arithmetic(left, right) ==
  LET l_type == type_arithmetic(left)
      r_type == type_arithmetic(right)
      type == type_super(l_type, r_type)
  IN IF type = NULL
     THEN Reject(<<"left and right side must have related arithmetic types">>)
     ELSE Accept(type)

\* right = NULL stands for the unary form (no right child)
expr_minus(left, hasRight, right) ==
  LET l_type == type_arithmetic(left)
      r_type == IF hasRight THEN type_arithmetic(right) ELSE NULL
      type == IF hasRight THEN type_super(l_type, r_type) ELSE l_type
  IN IF type # NULL THEN Accept(type)
     ELSE IF hasRight
     THEN Reject(<<"left and right side must have related arithmetic types">>)
     ELSE Reject(<<"must have an arithmetic type">>)

expr_shift(left, right) ==
  LET l_type == type_int(left)
      r_type == type_int(right)
  IN IF l_type = NULL \/ r_type = NULL
     THEN Reject(<<"left and right side must have integer types">>)
     ELSE Accept(l_type)

int_or_bool_diag(type) ==
  IF type_int_or_bool(type) = NULL
  THEN <<"expected Bool or an integer type">> ELSE <<>>

expr_logical(left, right) ==
  LET l_type == type_int_or_bool(left)
      r_type == type_int_or_bool(right)
      type == type_super(l_type, r_type)
  IN IF type = NULL
     THEN Reject(int_or_bool_diag(left) \o int_or_bool_diag(right) \o
            <<"left and right side must have related integer or boolean types">>)
     ELSE Accept(type)

expr_not(child) ==
  IF type_int_or_bool(child) = NULL THEN Reject(int_or_bool_diag(child))
  ELSE Accept(type_int_or_bool(child))

\* types: the types of the children in order, at least one
RECURSIVE tuple_cons(_)
tuple_cons(types) ==
  IF Len(types) = 1 THEN types[1]
  ELSE ast_append(ast_append(ast_from("TUPLETYPE"), types[1]),
                  tuple_cons(Tail(types)))

expr_tuple(types) ==
  IF Len(types) = 1 THEN Accept(types[1])
  ELSE Accept(tuple_cons(types))

expr_call(type, rcap) ==
  IF type = NULL THEN Undefined
  ELSE IF ast_id(type) \in {"NEW", "BE", "FUN"}
  THEN IF ~is_cap_sub_cap(rcap, cap_for_fun(type))
       THEN Reject(<<"receiver capability is not a subtype of method capability">>)
       ELSE Accept(ast_childidx(type, 4))
  ELSE IF ast_id(type) \in
            {"UNIONTYPE", "ISECTTYPE", "NOMINAL", "STRUCTURAL", "ARROW"}
  THEN Reject(<<"not implemented (apply sugar)">>)
  ELSE IF ast_id(type) = "TUPLETYPE"
  THEN Reject(<<"can't call a tuple type">>)
  ELSE Undefined

\* right: the else child, NONE when the else branch is absent
expr_if(cond, l_type, right, r_type0) ==
  IF cond = NULL THEN Undefined
  ELSE IF type_bool(cond) = NULL
  THEN Reject(<<"condition must be a Bool">>)
  ELSE LET r_type == IF ast_id(right) = "NONE" THEN nominal_builtin("None")
                     ELSE r_type0
       IN IF l_type = NULL \/ r_type = NULL THEN Undefined
          ELSE Accept(type_union(l_type, r_type))

expr_while(cond) ==
  IF cond = NULL THEN Undefined
  ELSE IF type_bool(cond) = NULL
  THEN Reject(<<"condition must be a Bool">>)
  ELSE Accept(nominal_builtin("None"))

expr_repeat(cond) ==
  IF cond = NULL THEN Undefined
  ELSE IF type_bool(cond) = NULL
  THEN Reject(<<"condition must be a Bool">>)
  ELSE Accept(nominal_builtin("None"))

expr_continue(loop, hasNext) ==
  IF ~loop THEN Reject(<<"must be in a loop">>)
  ELSE IF hasNext
  THEN Reject(<<"must be the last expression in a sequence",
                "is followed with this expression">>)
  ELSE Accept(nominal_builtin("None"))

\* a faulty expr_return: a following sibling is not looked for
expr_return_anywhere(type, fun, hasNext) ==
  IF fun = NULL
  THEN Reject(<<"return must occur in a function or a behaviour body">>)
  ELSE IF ast_id(fun) = "NEW"
  THEN Reject(<<"cannot return in a constructor">>)
  ELSE IF type = NULL THEN Undefined
  ELSE IF ast_id(fun) = "BE"
  THEN IF ~is_subtype(type, nominal_builtin("None"))
       THEN Reject(<<"body of a return in a behaviour must have type None">>)
       ELSE AcceptUntyped
  ELSE IF ast_id(fun) = "FUN"
  THEN LET result == IF ast_id(ast_childidx(fun, 4)) = "NONE"
                     THEN nominal_builtin("None")
                     ELSE ast_childidx(fun, 4)
       IN IF ~is_subtype(type, result)
          THEN Reject(<<"body of return doesn't match the function return type">>)
          ELSE AcceptUntyped
  ELSE Undefined

\* fun: the enclosing method declaration, NULL outside a method body
expr_return(type, fun, hasNext) ==
  LET d0 == IF hasNext
            THEN <<"must be the last expression in a sequence",
                   "is followed with this expression">>
            ELSE <<>>
  IN IF fun = NULL
     THEN Reject(<<"return must occur in a function or a behaviour body">>)
     ELSE IF ast_id(fun) = "NEW"
     THEN Reject(d0 \o <<"cannot return in a constructor">>)
     ELSE IF type = NULL THEN Undefined
     ELSE IF ast_id(fun) = "BE"
     THEN LET d1 == IF ~is_subtype(type, nominal_builtin("None"))
                    THEN <<"body of a return in a behaviour must have type None">>
                    ELSE <<>>
          IN IF d0 \o d1 = <<>> THEN AcceptUntyped ELSE Reject(d0 \o d1)
     ELSE IF ast_id(fun) = "FUN"
     THEN LET result == IF ast_id(ast_childidx(fun, 4)) = "NONE"
                        THEN nominal_builtin("None")
                        ELSE ast_childidx(fun, 4)
              d1 == IF ~is_subtype(type, result)
                    THEN <<"body of return doesn't match the function return type">>
                    ELSE <<>>
          IN IF d0 \o d1 = <<>> THEN AcceptUntyped ELSE Reject(d0 \o d1)
     ELSE Undefined

expr_assign(left, l_type, r_type) ==
  IF ~is_lvalue(left)
  THEN Reject(<<"left side must be something that can be assigned to">>)
  ELSE IF l_type = NULL \/ r_type = NULL THEN Undefined
  ELSE IF ~is_subtype(r_type, l_type)
  THEN Reject(<<"right side must be a subtype of left side">>)
  ELSE Accept(l_type)

expr_consume == Reject(<<"not implemented (consume)">>)

expr_error(hasNext) ==
  IF hasNext
  THEN Reject(<<"error must be the last expression in a sequence",
                "error is followed with this expression">>)
  ELSE Accept(ast_from("ERROR"))

\* a faulty seq_can_error: only the last child is asked
seq_last_can_error(types) ==
  is_subtype(ast_from("ERROR"), types[Len(types)])

\* types: the types of the children in order, at least one
seq_can_error(types) ==
  \E i \in 1..Len(types) : is_subtype(ast_from("ERROR"), types[i])

\* a faulty expr_seq: a sequence that can error is typed with the marker
expr_seq_error_only(types) ==
  LET error == ast_from("ERROR")
      type == types[Len(types)]
  IN IF \E i \in 1..Len(types) : types[i] = NULL THEN Undefined
     ELSE IF seq_can_error(types) THEN Accept(error)
     ELSE Accept(type)

expr_seq(types) ==
  LET error == ast_from("ERROR")
      type == types[Len(types)]
  IN IF \E i \in 1..Len(types) : types[i] = NULL THEN Undefined
     ELSE IF seq_can_error(types) THEN Accept(type_union(type, error))
     ELSE Accept(type)

\* a faulty expr_fun: the body's type is not compared for equality with the
\* result
expr_fun_subtype_only(ast, is_trait, body_type) ==
  LET type0 == ast_childidx(ast, 4)
      can_error == ast_childidx(ast, 5)
      body == ast_childidx(ast, 6)
      error == ast_from("ERROR")
      here == "function body expression is here"
      partial == ast_id(can_error) = "QUESTION"
      d1 == IF partial
            THEN IF ~is_trait /\ ~is_subtype(error, body_type)
                 THEN <<"function body is not partial but the function is">>
                 ELSE <<>>
            ELSE IF is_subtype(error, body_type)
                 THEN <<"function body is partial but the function is not">>
                 ELSE <<>>
      type == IF ast_id(type0) # "NONE" /\ partial
              THEN type_union(type0, error) ELSE type0
      d2 == IF ast_id(type0) # "NONE" /\ ~is_subtype(body_type, type)
            THEN <<"function body isn't a subtype of the result type", here>>
            ELSE <<>>
  IN IF ast_id(body) = "NONE" THEN AcceptUntyped
     ELSE IF body_type = NULL THEN Undefined
     ELSE IF ast_id(body_type) = "ERROR"
     THEN Reject(<<"function body always results in an error", here>>)
     ELSE IF d1 \o d2 = <<>> THEN AcceptUntyped
     ELSE Reject(d1 \o d2)

\* a faulty expr_fun: a partial method in a trait is held to the partiality
\* check too
expr_fun_trait_checked(ast, is_trait, body_type) ==
  LET type0 == ast_childidx(ast, 4)
      can_error == ast_childidx(ast, 5)
      body == ast_childidx(ast, 6)
      error == ast_from("ERROR")
      here == "function body expression is here"
      partial == ast_id(can_error) = "QUESTION"
      d1 == IF partial
            THEN IF ~is_subtype(error, body_type)
                 THEN <<"function body is not partial but the function is">>
                 ELSE <<>>
            ELSE IF is_subtype(error, body_type)
                 THEN <<"function body is partial but the function is not">>
                 ELSE <<>>
      type == IF ast_id(type0) # "NONE" /\ partial
              THEN type_union(type0, error) ELSE type0
      d2 == IF ast_id(type0) # "NONE" /\ ~is_subtype(body_type, type)
            THEN <<"function body isn't a subtype of the result type", here>>
            ELSE <<>>
      d3 == IF ast_id(type0) # "NONE" /\ ~is_trait /\ ~is_eqtype(body_type, type)
            THEN <<"function body is more specific than the result type", here>>
            ELSE <<>>
  IN IF ast_id(body) = "NONE" THEN AcceptUntyped
     ELSE IF body_type = NULL THEN Undefined
     ELSE IF ast_id(body_type) = "ERROR"
     THEN Reject(<<"function body always results in an error", here>>)
     ELSE IF d1 \o d2 \o d3 = <<>> THEN AcceptUntyped
     ELSE Reject(d1 \o d2 \o d3)

\* ast: the method declaration (cap id typeparams params result can_error
\* body); body_type: the type slot of its body
expr_fun(ast, is_trait, body_type) ==
  LET type0 == ast_childidx(ast, 4)
      can_error == ast_childidx(ast, 5)
      body == ast_childidx(ast, 6)
      error == ast_from("ERROR")
      here == "function body expression is here"
      partial == ast_id(can_error) = "QUESTION"
      d1 == IF partial
            THEN IF ~is_trait /\ ~is_subtype(error, body_type)
                 THEN <<"function body is not partial but the function is">>
                 ELSE <<>>
            ELSE IF is_subtype(error, body_type)
                 THEN <<"function body is partial but the function is not">>
                 ELSE <<>>
      type == IF ast_id(type0) # "NONE" /\ partial
              THEN type_union(type0, error) ELSE type0
      d2 == IF ast_id(type0) # "NONE" /\ ~is_subtype(body_type, type)
            THEN <<"function body isn't a subtype of the result type", here>>
            ELSE <<>>
      d3 == IF ast_id(type0) # "NONE" /\ ~is_trait /\ ~is_eqtype(body_type, type)
            THEN <<"function body is more specific than the result type", here>>
            ELSE <<>>
  IN IF ast_id(body) = "NONE" THEN AcceptUntyped
     ELSE IF body_type = NULL THEN Undefined
     ELSE IF ast_id(body_type) = "ERROR"
     THEN Reject(<<"function body always results in an error", here>>)
     ELSE IF d1 \o d2 \o d3 = <<>> THEN AcceptUntyped
     ELSE Reject(d1 \o d2 \o d3)

\* ------------------------------------------------------------ dispatcher
StubKinds == {"VAR", "LET", "FOR", "TRY", "ARRAY", "OBJECT"}

StubName(kind) ==
  CASE kind \in {"VAR", "LET"} -> "not implemented (local)"
    [] kind = "FOR" -> "not implemented (for)"
    [] kind = "TRY" -> "not implemented (try)"
    [] kind = "ARRAY" -> "not implemented (array)"
    [] kind = "OBJECT" -> "not implemented (object)"

KidTypes(kids) == [i \in 1..Len(kids) |-> kids[i].type]

\* n: the visited node [kind, kids, arg]; kids are the summaries of its
\* expression children, arg what the handler reads besides them
type_expr(n) ==
  LET k == n.kind
      kids == n.kids
      t == KidTypes(n.kids)
      a == n.arg
  IN CASE k \in {"FVAR", "FLET", "PARAM"} ->
            expr_field(a.type, IF kids = <<>> THEN NONE ELSE <<"SEQ">>,
                       IF kids = <<>> THEN NULL ELSE t[1])
       [] k \in {"NEW", "BE", "FUN"} ->
            expr_fun(a.decl, a.trait, IF kids = <<>> THEN NULL ELSE t[1])
       [] k = "SEQ" -> expr_seq(t)
       [] k \in StubKinds -> Reject(<<StubName(k)>>)
       [] k \in {"CONTINUE", "BREAK"} -> expr_continue(a.loop, a.hasNext)
       [] k = "RETURN" -> expr_return(t[1], a.fun, a.hasNext)
       [] k \in {"MULTIPLY", "DIVIDE", "MOD", "PLUS"} ->
            expr_arithmetic(t[1], t[2])
       [] k = "MINUS" ->
            expr_minus(t[1], Len(kids) = 2, IF Len(kids) = 2 THEN t[2] ELSE NULL)
       [] k \in {"LSHIFT", "RSHIFT"} -> expr_shift(t[1], t[2])
       [] k \in {"LT", "LE", "GE", "GT"} -> expr_order(t[1], t[2])
       [] k \in {"EQ", "NE"} -> expr_compare(t[1], t[2])
       [] k \in {"IS", "ISNT"} -> expr_identity(t[1], t[2])
       [] k \in {"AND", "XOR", "OR"} -> expr_logical(t[1], t[2])
       [] k = "NOT" -> expr_not(t[1])
       [] k = "ASSIGN" -> expr_assign(a.left, t[1], t[2])
       [] k = "CONSUME" -> expr_consume
       [] k = "DOT" -> expr_dot(t[1], a.right, a.found)
       [] k = "QUALIFY" -> expr_qualify
       [] k = "CALL" -> expr_call(t[1], a.rcap)
       [] k = "IF" ->
            expr_if(t[1], t[2], IF Len(kids) = 3 THEN <<"SEQ">> ELSE NONE,
                    IF Len(kids) = 3 THEN t[3] ELSE NULL)
       [] k = "WHILE" -> expr_while(t[1])
       [] k = "REPEAT" -> expr_repeat(t[2])
       [] k = "TUPLE" -> expr_tuple(t)
       [] k = "REFERENCE" -> expr_reference(a.def, a.use, a.parent)
       [] k = "THIS" -> expr_this(a.def, a.rcap)
       [] k = "INT" -> expr_literal("IntLiteral")
       [] k = "FLOAT" -> expr_literal("FloatLiteral")
       [] k = "STRING" -> expr_literal("String")
       [] k = "ERROR" -> expr_error(a.hasNext)
       [] OTHER -> AcceptUntyped

\* ------------------------------------------------------ type node ledger
\* What one call of type_expr does to the type nodes it holds a pointer to:
\* a function from the name of the pointer to the node behind it.
\* own: "fresh" (made in this call by ast_from, nominal_builtin or
\* nominal_type), "attached" (the type of a child expression or a part of
\* it), "borrowed" (a part of a declaration).  parent: the node is the child
\* of a node or the type of an expression.  freed: the number of times the
\* node went through ast_free.  Children made together with a fresh node
\* share the fate of that node.
Node(own, parent) == [own |-> own, parent |-> parent, freed |-> 0]
Fresh == Node("fresh", FALSE)
Attached == Node("attached", TRUE)
Borrowed == Node("borrowed", TRUE)
NoNodes == [k \in {} |-> Fresh]

\* ast_add, ast_append and ast_settype give the node a parent; of a node
\* that has a parent they take a copy and leave the node as it is
ast_attach(h, k) == IF h[k].parent THEN h ELSE [h EXCEPT ![k].parent = TRUE]
ast_free(h, k) == [h EXCEPT ![k].freed = @ + 1]
\* k = "NULL": the pointer is NULL
ast_free_unattached(h, k) ==
  IF k = "NULL" \/ h[k].parent THEN h ELSE ast_free(h, k)

\* the probe of type_builtin: made, asked, freed
nodes_type_builtin(k) == ast_free(k :> Fresh, k)

\* type_bool, then type_int when the node is not a Bool
nodes_type_int_or_bool(type, b, i) ==
  IF type_bool(type) # NULL THEN nodes_type_builtin(b)
  ELSE nodes_type_builtin(b) @@ nodes_type_builtin(i)

\* which of the two pointers type_super returns
nodes_type_super(l_type, r_type, l, r) ==
  IF l_type = NULL \/ r_type = NULL THEN "NULL"
  ELSE IF is_subtype(l_type, r_type) THEN r
  ELSE IF is_subtype(r_type, l_type) THEN l
  ELSE "NULL"

\* h: the ledger with the nodes behind l and r; type: the pointer returned
nodes_type_union(h, l_type, r_type, l, r) ==
  LET super == nodes_type_super(l_type, r_type, l, r)
  IN IF super # "NULL" THEN [h |-> h, type |-> super]
     ELSE [h |-> ast_attach(ast_attach(h @@ ("union" :> Fresh), r), l),
           type |-> "union"]

\* fun and the NONE and TYPES nodes are fresh, the other children are
\* parts of the declaration
nodes_type_for_fun == ("fun" :> Fresh) @@ ("decl" :> Borrowed)

nodes_expr_field(type, init) ==
  IF ast_id(type) = "NONE" /\ ast_id(init) = "NONE" THEN NoNodes
  ELSE IF ast_id(type) = "NONE"
  THEN ast_attach("init_type" :> Attached, "init_type")
  ELSE ast_attach(("type" :> Borrowed) @@ ("init_type" :> Attached), "type")

nodes_expr_literal(name) ==
  IF name \notin BuiltinNames THEN NoNodes
  ELSE ast_attach("type" :> Fresh, "type")

nodes_expr_this == ast_attach("nominal" :> Fresh, "nominal")

nodes_expr_reference(def, use) ==
  IF def.kind \in {"TYPE", "CLASS", "ACTOR"}
  THEN ast_attach("type" :> Fresh, "type")
  ELSE IF def.kind \in {"FVAR", "FLET", "PARAM"} /\ def_before_use(def.pos, use)
  THEN ast_attach("type" :> Borrowed, "type")
  ELSE IF def.kind \in {"NEW", "BE", "FUN"}
  THEN ast_attach(nodes_type_for_fun, "fun")
  ELSE NoNodes

nodes_expr_dot(type, right, found) ==
  IF ast_id(right) = "ID"
  THEN IF type = NULL /\ found THEN ast_attach("type" :> Fresh, "type")
       ELSE NoNodes
  ELSE IF type = NULL \/ ast_id(type) # "TUPLETYPE" THEN NoNodes
  ELSE IF tuple_index(type, right[2]) = NULL THEN "left" :> Attached
  ELSE ast_attach("type" :> Attached, "type")

\* the pointer type_builtin and its kin return: the type of the operand or
\* NULL
nodes_operand(type, k) == IF type = NULL THEN "NULL" ELSE k

\* the operators that join the types of two operands: l_type, r_type are
\* what the probes returned, h holds the probes
nodes_join(h, l_type, r_type) ==
  LET h0 == h @@ ("l_type" :> Attached) @@ ("r_type" :> Attached)
      type == nodes_type_super(l_type, r_type, "l_type", "r_type")
      h1 == IF type = "NULL" THEN h0 ELSE ast_attach(h0, type)
  IN ast_free_unattached(
       ast_free_unattached(h1, nodes_operand(l_type, "l_type")),
       nodes_operand(r_type, "r_type"))

nodes_probes == nodes_type_builtin("l_probe") @@ nodes_type_builtin("r_probe")

nodes_expr_identity(l_type, r_type) ==
  IF type_super(l_type, r_type) = NULL THEN NoNodes
  ELSE nodes_expr_literal("Bool")

\* expr_compare and expr_order: the operands are let go of before the Bool
\* is made
nodes_expr_compare(left, right) ==
  LET l_type == type_arithmetic(left)
      r_type == type_arithmetic(right)
      type == type_super(l_type, r_type)
      h0 == nodes_probes @@ ("l_type" :> Attached) @@ ("r_type" :> Attached)
      h1 == ast_free_unattached(
              ast_free_unattached(h0, nodes_operand(l_type, "l_type")),
              nodes_operand(r_type, "r_type"))
  IN IF type = NULL /\ ~is_subtype(right, left) THEN h1
     ELSE ast_attach(h1 @@ ("bool" :> Fresh), "bool")

nodes_expr_arithmetic(left, right) ==
  nodes_join(nodes_probes, type_arithmetic(left), type_arithmetic(right))

nodes_expr_minus(left, hasRight, right) ==
  IF hasRight THEN nodes_expr_arithmetic(left, right)
  ELSE LET l_type == type_arithmetic(left)
           h0 == nodes_type_builtin("l_probe") @@ ("l_type" :> Attached)
           h1 == IF l_type = NULL THEN h0 ELSE ast_attach(h0, "l_type")
       IN ast_free_unattached(h1, nodes_operand(l_type, "l_type"))

nodes_expr_shift(left, right) ==
  LET l_type == type_int(left)
      r_type == type_int(right)
      h0 == nodes_probes @@ ("l_type" :> Attached) @@ ("r_type" :> Attached)
      h1 == IF l_type = NULL \/ r_type = NULL THEN h0
            ELSE ast_attach(h0, "l_type")
  IN ast_free_unattached(
       ast_free_unattached(h1, nodes_operand(l_type, "l_type")),
       nodes_operand(r_type, "r_type"))

nodes_expr_logical(left, right) ==
  nodes_join(nodes_type_int_or_bool(left, "l_bool", "l_int")
               @@ nodes_type_int_or_bool(right, "r_bool", "r_int"),
             type_int_or_bool(left), type_int_or_bool(right))

nodes_expr_not(child) ==
  LET h0 == nodes_type_int_or_bool(child, "bool", "int") @@ ("type" :> Attached)
  IN IF type_int_or_bool(child) = NULL THEN h0 ELSE ast_attach(h0, "type")

\* one child: its type; more: a fresh TUPLETYPE that takes the types
nodes_expr_tuple(types) ==
  IF Len(types) = 1 THEN ast_attach("type" :> Attached, "type")
  ELSE ast_attach(("tuple" :> Fresh) @@ ("type" :> Attached), "tuple")

nodes_expr_call(type, rcap) ==
  IF ast_id(type) \in {"NEW", "BE", "FUN"}
       /\ is_cap_sub_cap(rcap, cap_for_fun(type))
  THEN ast_attach("result" :> Attached, "result")
  ELSE NoNodes

nodes_expr_if(cond, l_type, right, r_type0) ==
  IF type_bool(cond) = NULL THEN nodes_type_builtin("bool")
  ELSE LET r_type == IF ast_id(right) = "NONE" THEN nominal_builtin("None")
                     ELSE r_type0
           h0 == nodes_type_builtin("bool") @@ ("l_type" :> Attached)
                   @@ ("r_type" :> IF ast_id(right) = "NONE" THEN Fresh
                                   ELSE Attached)
           u == nodes_type_union(h0, l_type, r_type, "l_type", "r_type")
       IN ast_attach(u.h, u.type)

\* expr_while and expr_repeat
nodes_expr_while(cond) ==
  IF type_bool(cond) = NULL THEN nodes_type_builtin("bool")
  ELSE ast_attach(nodes_type_builtin("bool") @@ ("none" :> Fresh), "none")

nodes_expr_continue(loop, hasNext) ==
  IF ~loop \/ hasNext THEN NoNodes
  ELSE ast_attach("none" :> Fresh, "none")

nodes_expr_return(fun) ==
  IF fun = NULL \/ ast_id(fun) = "NEW" THEN NoNodes
  ELSE IF ast_id(fun) = "BE" THEN ast_free("none" :> Fresh, "none")
  ELSE ast_free_unattached(
         "result" :> IF ast_id(ast_childidx(fun, 4)) = "NONE" THEN Fresh
                     ELSE Borrowed,
         "result")

nodes_expr_assign(left, l_type, r_type) ==
  IF ~is_lvalue(left) \/ ~is_subtype(r_type, l_type) THEN NoNodes
  ELSE ast_attach("l_type" :> Attached, "l_type")

nodes_expr_error(hasNext) ==
  IF hasNext THEN NoNodes ELSE ast_attach("error" :> Fresh, "error")

nodes_expr_seq(types) ==
  LET h0 == ("error" :> Fresh) @@ ("type" :> Attached)
      u == nodes_type_union(h0, types[Len(types)], ast_from("ERROR"),
                            "type", "error")
      h1 == IF seq_can_error(types) THEN ast_attach(u.h, u.type)
            ELSE ast_attach(h0, "type")
  IN ast_free_unattached(h1, "error")

nodes_expr_fun(ast, is_trait, body_type) ==
  LET type0 == ast_childidx(ast, 4)
      can_error == ast_childidx(ast, 5)
      body == ast_childidx(ast, 6)
      h0 == ("error" :> Fresh) @@ ("type" :> Borrowed)
              @@ ("body_type" :> Attached)
      u == IF ast_id(type0) # "NONE" /\ ast_id(can_error) = "QUESTION"
           THEN nodes_type_union(h0, type0, ast_from("ERROR"), "type", "error")
           ELSE [h |-> h0, type |-> "type"]
  IN IF ast_id(body) = "NONE" \/ ast_id(body_type) = "ERROR" THEN NoNodes
     ELSE ast_free_unattached(ast_free_unattached(u.h, "error"), u.type)

\* the ledger of type_expr on the node n
type_nodes(n) ==
  LET k == n.kind
      kids == n.kids
      t == KidTypes(n.kids)
      a == n.arg
  IN CASE k \in {"FVAR", "FLET", "PARAM"} ->
            nodes_expr_field(a.type, IF kids = <<>> THEN NONE ELSE <<"SEQ">>)
       [] k \in {"NEW", "BE", "FUN"} ->
            nodes_expr_fun(a.decl, a.trait, IF kids = <<>> THEN NULL ELSE t[1])
       [] k = "SEQ" -> nodes_expr_seq(t)
       [] k \in {"CONTINUE", "BREAK"} -> nodes_expr_continue(a.loop, a.hasNext)
       [] k = "RETURN" -> nodes_expr_return(a.fun)
       [] k \in {"MULTIPLY", "DIVIDE", "MOD", "PLUS"} ->
            nodes_expr_arithmetic(t[1], t[2])
       [] k = "MINUS" ->
            nodes_expr_minus(t[1], Len(kids) = 2,
                             IF Len(kids) = 2 THEN t[2] ELSE NULL)
       [] k \in {"LSHIFT", "RSHIFT"} -> nodes_expr_shift(t[1], t[2])
       [] k \in {"LT", "LE", "GE", "GT", "EQ", "NE"} ->
            nodes_expr_compare(t[1], t[2])
       [] k \in {"IS", "ISNT"} -> nodes_expr_identity(t[1], t[2])
       [] k \in {"AND", "XOR", "OR"} -> nodes_expr_logical(t[1], t[2])
       [] k = "NOT" -> nodes_expr_not(t[1])
       [] k = "ASSIGN" -> nodes_expr_assign(a.left, t[1], t[2])
       [] k = "DOT" -> nodes_expr_dot(t[1], a.right, a.found)
       [] k = "CALL" -> nodes_expr_call(t[1], a.rcap)
       [] k = "IF" ->
            nodes_expr_if(t[1], t[2], IF Len(kids) = 3 THEN <<"SEQ">> ELSE NONE,
                          IF Len(kids) = 3 THEN t[3] ELSE NULL)
       [] k \in {"WHILE", "REPEAT"} ->
            nodes_expr_while(IF k = "WHILE" THEN t[1] ELSE t[2])
       [] k = "TUPLE" -> nodes_expr_tuple(t)
       [] k = "REFERENCE" -> nodes_expr_reference(a.def, a.use)
       [] k = "THIS" -> nodes_expr_this
       [] k = "INT" -> nodes_expr_literal("IntLiteral")
       [] k = "FLOAT" -> nodes_expr_literal("FloatLiteral")
       [] k = "STRING" -> nodes_expr_literal("String")
       [] k = "ERROR" -> nodes_expr_error(a.hasNext)
       [] OTHER -> NoNodes

\* ------------------------------------------------------------ the scope
\* Declarations the name-resolution pass attached to the identifiers.
Bool == nominal_builtin("Bool")
None == nominal_builtin("None")
IntLiteral == nominal_builtin("IntLiteral")
Integer == nominal_builtin("Integer")
String == nominal_builtin("String")

\* declared types of fields, parameters and results
DeclTypes == {Bool, Integer, <<"UNIONTYPE", None, IntLiteral>>}

Param(name, type) == <<"PARAM", ast_from_string(name), type, NONE>>

Method(kind, cap, name, params, result, throws, body) ==
  <<kind, ast_from(cap), ast_from_string(name), NONE, params, result,
    ast_from(throws), body>>

\* where every declaration of the scope sits: line, column
DefPos == <<2, 2>>
UsePositions == {<<1, 5>>, <<2, 1>>, <<2, 2>>, <<3, 1>>}

Def(kind, type, node) ==
  [kind |-> kind, pos |-> DefPos, type |-> type, node |-> node]

Scope ==
  [name \in {"pkg", "Bool", "b", "x", "f", "g", "beh", "loc", "nope"} |->
     CASE name = "pkg" -> Def("PACKAGE", NULL, <<"PACKAGE">>)
       [] name = "Bool" ->
            Def("CLASS", NULL, <<"CLASS", ast_from_string("Bool"), NONE>>)
       [] name = "b" -> Def("FLET", Bool, <<"FLET">>)
       [] name = "x" -> Def("PARAM", Integer, <<"PARAM">>)
       [] name = "f" ->
            Def("FUN", NULL,
                Method("FUN", "box", "f", NONE, Bool, "NONE", <<"SEQ">>))
       [] name = "g" ->
            Def("FUN", NULL,
                Method("FUN", "ref", "g",
                       <<"PARAMS", Param("p", IntLiteral), Param("q", String)>>,
                       Integer, "QUESTION", <<"SEQ">>))
       [] name = "beh" ->
            Def("BE", NULL,
                Method("BE", "NONE", "beh", NONE, NONE, "NONE", <<"SEQ">>))
       [] name = "loc" -> Def("IDSEQ", NULL, <<"IDSEQ">>)
       [] name = "nope" -> Def("NULL", NULL, NULL)]

ast_get(name) == Scope[name]

\* enclosing type declarations: kind, id, typeparams
EnclosingTypes ==
  {<<"CLASS", ast_from_string("Foo"), NONE>>,
   <<"ACTOR", ast_from_string("Bar"),
     <<"TYPEPARAMS", <<"TYPEPARAM", ast_from_string("A")>>>>>>}

\* cap_for_receiver inside a method of the enclosing type
ReceiverCap(def) == IF ast_id(def) = "ACTOR" THEN "ref" ELSE "box"

\* method declarations the walker can be inside of or arrive at
MethodDecls(body) ==
  {Method("FUN", "box", "m", NONE, r, q, body) :
     r \in {NONE} \cup DeclTypes, q \in {"NONE", "QUESTION"}}
  \cup {Method(k, "NONE", "m", NONE, NONE, q, body) :
     k \in {"NEW", "BE"}, q \in {"NONE", "QUESTION"}}

\* ------------------------------------------------------------ the walker
Children(n) == SubSeq(stack, Len(stack) - n + 1, Len(stack))
Rest(n) == SubSeq(stack, 1, Len(stack) - n)

RECURSIVE Leaves(_)
Leaves(s) == IF s = <<>> THEN 0 ELSE TypeSize(Head(s).type) + Leaves(Tail(s))

JumpKinds == {"RETURN", "ERROR", "CONTINUE", "BREAK"}

\* nodes whose type is built from, or taken out of, their children's types
StructKinds == {"SEQ", "TUPLE", "IF", "DOT"}

MethodKinds == {"NEW", "BE", "FUN"}
DeclKinds == MethodKinds \cup {"FVAR", "FLET", "PARAM"}

\* the type of a `this` expression: a nominal with a capability
IsThisType(t) == ast_id(t) = "NOMINAL" /\ ast_id(t[5]) # "NONE"
\* the type of a type in a package
IsPackageType(t) == ast_id(t) = "NOMINAL" /\ ast_id(t[2]) # "NONE"

\* Shapes of the trees that are walked.  An accepted jump expression has no
\* following sibling and sits in a sequence; an accepted package name is the
\* left side of a DOT; a reference to a method is the callee of a CALL
\* ("method call on 'this'").  Of the programs that use them otherwise, the
\* trees walked are those where `this` is the receiver of a DOT, a type in a
\* package is the callee of a CALL, a call that yields no result (its type
\* is the NONE node) is the only expression of its sequence or the
\* initialiser or body of a declaration, and an expression of type
\* FloatLiteral is an operand of an operator, a return or a declaration.
WellPlaced(kind, kids) ==
  \A i \in 1..Len(kids) :
    /\ kids[i].final => (kind = "SEQ" /\ i = Len(kids))
    /\ kids[i].pkg => kind = "DOT"
    /\ ast_id(kids[i].type) \in MethodKinds => kind = "CALL"
    /\ IsThisType(kids[i].type) => kind = "DOT"
    /\ IsPackageType(kids[i].type) => kind = "CALL"
    /\ ast_id(kids[i].type) = "NONE" =>
         (kind \in {"SEQ"} \cup DeclKinds /\ Len(kids) = 1)
    /\ kids[i].type = nominal_builtin("FloatLiteral") =>
         kind \notin StructKinds

\* such a node is followed, in post-order, by its parent
Pinned(s) ==
  \/ s.final \/ s.pkg \/ ast_id(s.type) \in MethodKinds
  \/ IsThisType(s.type) \/ IsPackageType(s.type) \/ ast_id(s.type) = "NONE"

Summary(kind, kids, arg, slot) ==
  [type |-> slot,
   final |-> kind \in JumpKinds,
   pkg |-> kind = "REFERENCE" /\ slot = NULL]

NoArg == [none |-> TRUE]

Idle ==
  [kind |-> "IDLE", kids |-> <<>>, arg |-> NoArg, ret |-> "OK",
   type |-> NULL, diags |-> <<>>]

\* One call of type_expr by the walker on a node of `kind` whose n expression
\* children are the n most recent pending subtrees.  push: the node is an
\* expression (declarations are not children of an expression).  A result
\* other than AST_OK ends the walk: nothing is pending afterwards.
Visit(kind, n, arg, push) ==
  /\ last = Idle
  /\ n <= Len(stack)
  /\ kind \notin StructKinds =>
       \A i \in 1..n : TypeSize(stack[Len(stack) - n + i].type) <= MaxOperand
  /\ (stack # <<>> /\ Pinned(stack[Len(stack)])) => n >= 1
  /\ LET kids == Children(n)
         res == type_expr([kind |-> kind, kids |-> kids, arg |-> arg])
         slot == IF res.set THEN res.type ELSE NULL
         stk == IF res.ret # "OK" THEN <<>>
                ELSE IF push
                THEN Append(Rest(n), Summary(kind, kids, arg, slot))
                ELSE Rest(n)
     IN /\ WellPlaced(kind, kids)
        /\ Leaves(stk) <= MaxLeaves
        /\ stack' = stk
        /\ last' = [kind |-> kind, kids |-> kids, arg |-> arg,
                    ret |-> res.ret, type |-> slot, diags |-> res.diags]

VisitLiteral == \E k \in {"INT", "FLOAT"} : Visit(k, 0, NoArg, TRUE)

VisitThis ==
  \E d \in EnclosingTypes :
    Visit("THIS", 0, [def |-> d, rcap |-> ReceiverCap(d)], TRUE)

VisitReference ==
  \E name \in DOMAIN Scope, use \in UsePositions, parent \in {"DOT", "SEQ"} :
    /\ ast_get(name).kind \notin {"FVAR", "FLET", "PARAM", "IDSEQ"}
         => use = <<3, 1>>
    /\ ast_get(name).kind # "PACKAGE" => parent = "SEQ"
    /\ Visit("REFERENCE",  0,
             [name |-> name, def |-> ast_get(name), use |-> use,
              parent |-> parent], TRUE)

VisitError ==
  \E h \in BOOLEAN : Visit("ERROR", 0, [hasNext |-> h], TRUE)

VisitContinue ==
  \E k \in {"CONTINUE", "BREAK"}, l \in BOOLEAN, h \in BOOLEAN :
    Visit(k, 0, [loop |-> l, hasNext |-> h], TRUE)

VisitReturn ==
  \E f \in {NULL} \cup MethodDecls(<<"SEQ">>), h \in BOOLEAN :
    /\ f # NULL => ast_id(ast_childidx(f, 5)) = "NONE"
    /\ Visit("RETURN", 1, [fun |-> f, hasNext |-> h], TRUE)

VisitSeq == \E n \in 1..MaxArity : Visit("SEQ", n, NoArg, TRUE)

VisitTuple == \E n \in 1..MaxArity : Visit("TUPLE", n, NoArg, TRUE)

VisitIf == \E n \in {2, 3} : Visit("IF", n, NoArg, TRUE)

VisitWhile == Visit("WHILE", 2, NoArg, TRUE)

VisitRepeat == Visit("REPEAT", 2, NoArg, TRUE)

VisitArithmetic ==
  \E k \in {"MULTIPLY", "DIVIDE", "MOD", "PLUS"} : Visit(k, 2, NoArg, TRUE)

VisitMinus == \E n \in {1, 2} : Visit("MINUS", n, NoArg, TRUE)

VisitShift == \E k \in {"LSHIFT", "RSHIFT"} : Visit(k, 2, NoArg, TRUE)

VisitOrder == \E k \in {"LT", "LE", "GE", "GT"} : Visit(k, 2, NoArg, TRUE)

VisitCompare == \E k \in {"EQ", "NE"} : Visit(k, 2, NoArg, TRUE)

VisitIdentity == \E k \in {"IS", "ISNT"} : Visit(k, 2, NoArg, TRUE)

VisitLogical == \E k \in {"AND", "XOR", "OR"} : Visit(k, 2, NoArg, TRUE)

VisitNot == Visit("NOT", 1, NoArg, TRUE)

\* The summaries do not keep the kinds of a subtree: the kinds of the left
\* side are drawn here.  Every type is the type of an l-value (a positional
\* DOT) and of a non-l-value (a SEQ).
LeftShapes ==
  {<<"REFERENCE">>, <<"DOT">>, <<"SEQ">>, <<"TUPLE", <<"REFERENCE">>>>,
   <<"TUPLE", <<"DOT">>, <<"TUPLE", <<"REFERENCE">>, <<"INT">>>>>>}

VisitAssign ==
  \E l \in LeftShapes :
    /\ Len(stack) >= 2
    /\ (ast_id(l) = "TUPLE" /\ Len(l) > 2) =>
         ast_id(Children(2)[1].type) = "TUPLETYPE"
    /\ Visit("ASSIGN", 2, [left |-> l], TRUE)

VisitConsume == Visit("CONSUME", 1, NoArg, TRUE)

VisitQualify == Visit("QUALIFY", 1, NoArg, TRUE)

VisitDot ==
  \/ \E i \in 0..MaxIndex :
       Visit("DOT", 1, [right |-> <<"INT", i>>, found |-> FALSE], TRUE)
  \/ \E name \in {"T", "U"} :
       Visit("DOT", 1, [right |-> <<"ID", name>>, found |-> name = "T"], TRUE)

VisitCall == \E c \in Caps : Visit("CALL", 1, [rcap |-> c], TRUE)

\* a field or parameter declaration: its initialiser, when present, is the
\* only pending subtree
VisitField ==
  \E k \in {"FVAR", "FLET", "PARAM"}, t \in {NONE} \cup DeclTypes,
     n \in {0, 1} :
    /\ Len(stack) = n
    /\ Visit(k, n, [type |-> t], FALSE)

\* a method declaration: its body, when present, is the only pending subtree
VisitFun ==
  \E n \in {0, 1}, trait \in BOOLEAN :
    \E d \in MethodDecls(IF n = 0 THEN NONE ELSE <<"SEQ">>) :
      /\ Len(stack) = n
      /\ Visit(ast_id(d), n, [decl |-> d, trait |-> trait], FALSE)

VisitStub == \E k \in StubKinds : Visit(k, 0, NoArg, TRUE)

\* kinds the dispatcher has no case for
VisitOther == \E k \in {"ID", "NONE", "TYPEPARAMS"} : Visit(k, 0, NoArg, FALSE)

\* type_expr returned AST_OK: the walker goes on to the next node
Advance ==
  /\ last # Idle
  /\ last.ret = "OK"
  /\ last' = Idle
  /\ UNCHANGED stack

Init ==
  /\ stack = <<>>
  /\ last = Idle

Next ==
  \/ VisitLiteral \/ VisitThis \/ VisitReference \/ VisitError
  \/ VisitContinue \/ VisitReturn \/ VisitSeq \/ VisitTuple \/ VisitIf
  \/ VisitWhile \/ VisitRepeat \/ VisitArithmetic \/ VisitMinus
  \/ VisitShift \/ VisitOrder \/ VisitCompare \/ VisitIdentity
  \/ VisitLogical \/ VisitNot \/ VisitAssign \/ VisitConsume
  \/ VisitQualify \/ VisitDot \/ VisitCall \/ VisitField \/ VisitFun
  \/ VisitStub \/ VisitOther \/ Advance

Spec == Init /\ [][Next]_vars


\* ------------------------------------------------------------ properties
\* What the properties read of the visit recorded in `last`.
Visited(kinds) == last.kind \in kinds
KidType(i) == last.kids[i].type
Accepted == last.ret = "OK"
Fatal(d) == last.ret = "FATAL" /\ last.diags = d
CanError(t) == is_subtype(ERROR, t)

\* the expression kinds type_expr has a handler for
ExprKinds ==
  {"INT", "FLOAT", "STRING", "REFERENCE", "THIS", "DOT", "MULTIPLY",
   "DIVIDE", "MOD", "PLUS", "MINUS", "LSHIFT", "RSHIFT", "LT", "LE", "GE",
   "GT", "EQ", "NE", "IS", "ISNT", "AND", "XOR", "OR", "NOT", "ASSIGN",
   "TUPLE", "SEQ", "CALL", "IF", "WHILE", "REPEAT", "CONTINUE", "BREAK",
   "RETURN", "ERROR"}

\* a package name that prefixes a type: the DOT above it reads the name, the
\* node has no type of its own
PackagePrefix == Visited({"REFERENCE"}) /\ last.arg.def.kind = "PACKAGE"

\* C1: after type_expr has visited a node of a handled expression kind (the
\* package prefix of a DOT set aside), the node has a type attached or at
\* least one diagnostic was emitted for it; a node accepted without a
\* diagnostic has a type.
C1_TypeOrDiagnostic ==
  (Visited(ExprKinds) /\ ~PackagePrefix /\ last.ret \in {"OK", "FATAL"})
    => (last.type # NULL \/ last.diags # <<>>)

\* the method declaration visited last, its parts and the type of its body
Decl == last.arg.decl
DeclResult == ast_childidx(Decl, 4)
DeclPartial == ast_id(ast_childidx(Decl, 5)) = "QUESTION"
BodyVisited == Visited(MethodKinds) /\ last.kids # <<>>

\* C2: a FUN that is not partial, not in a trait, with a body of type B and a
\* declared result R is accepted iff B is eqtype to R and ERROR is not a
\* subtype of B; it is FATAL otherwise.
C2_ConcreteFunAccepted ==
  (BodyVisited /\ Visited({"FUN"}) /\ ~DeclPartial /\ ~last.arg.trait
     /\ ast_id(DeclResult) # "NONE")
    => /\ last.ret \in {"OK", "FATAL"}
       /\ Accepted <=> (/\ is_eqtype(KidType(1), DeclResult)
                        /\ ~CanError(KidType(1)))

\* a function accepted although its body's type is not its declared result
\* node for node: the two are equal as types only
C2_Witness ==
  /\ BodyVisited /\ Visited({"FUN"}) /\ ~DeclPartial /\ ~last.arg.trait
  /\ ast_id(DeclResult) # "NONE"
  /\ Accepted
  /\ KidType(1) # DeclResult

NotPartialBody == "function body is not partial but the function is"
PartialBody == "function body is partial but the function is not"
NotSubtypeBody == "function body isn't a subtype of the result type"
AlwaysErrorBody == "function body always results in an error"

InDiags(d) == \E i \in 1..Len(last.diags) : last.diags[i] = d

\* the partiality rules that hold of every method with a body: the partial
\* method outside a trait whose body cannot fail, no partiality diagnostic
\* for a partial method in a trait, the comparison with result \cup ERROR
PartialMethodRules ==
  /\ (DeclPartial /\ ~last.arg.trait /\ ~CanError(KidType(1)))
       => (last.ret = "FATAL" /\ InDiags(NotPartialBody))
  /\ (DeclPartial /\ last.arg.trait) => ~InDiags(NotPartialBody)
  /\ (DeclPartial /\ ast_id(DeclResult) # "NONE"
        /\ ast_id(KidType(1)) # "ERROR")
       => (InDiags(NotSubtypeBody)
             <=> ~is_subtype(KidType(1), type_union(DeclResult, ERROR)))

\* C3 (as stated): a partial method outside a trait is rejected with "function
\* body is not partial but the function is" unless ERROR is a subtype of the
\* body's type; a method that is not partial is rejected with "function body
\* is partial but the function is not" whenever ERROR is a subtype of the
\* body's type; a partial method in a trait is never rejected by the
\* partiality check; a partial method's body is compared with result \cup ERROR.
C3_PartialityAsStated ==
  BodyVisited
    => /\ PartialMethodRules
       /\ (~DeclPartial /\ CanError(KidType(1)))
            => (last.ret = "FATAL" /\ InDiags(PartialBody))

\* C3 (amended): as stated, but a body whose type is the bare ERROR marker is
\* rejected with "function body always results in an error" before the
\* partiality check, so "function body is partial but the function is not"
\* is emitted exactly for the not partial methods whose body's type has ERROR
\* as a subtype without being the bare marker.
C3_PartialityDiscipline ==
  BodyVisited
    => /\ PartialMethodRules
       /\ ast_id(KidType(1)) = "ERROR"
            => Fatal(<<AlwaysErrorBody, "function body expression is here">>)
       /\ InDiags(PartialBody)
            <=> (/\ ~DeclPartial /\ CanError(KidType(1))
                 /\ ast_id(KidType(1)) # "ERROR")
       /\ InDiags(NotPartialBody)
            <=> (DeclPartial /\ ~last.arg.trait /\ ~CanError(KidType(1)))
       /\ (InDiags(PartialBody) \/ InDiags(NotPartialBody))
            => last.ret = "FATAL"

\* a partial function with a declared result, outside a trait, accepted: its
\* body's type is the declared result united with ERROR
C3_Witness ==
  /\ BodyVisited /\ DeclPartial /\ ~last.arg.trait
  /\ ast_id(DeclResult) # "NONE"
  /\ Accepted
  /\ CanError(KidType(1))

\* the types of the children of the node visited last
LastType == KidType(Len(last.kids))
AllTyped == \A i \in 1..Len(last.kids) : KidType(i) # NULL
AnyCanError == \E i \in 1..Len(last.kids) : CanError(KidType(i))

\* C4 (as stated): a sequence is accepted and typed UNIONTYPE(lastType, ERROR)
\* when ERROR is a subtype of the type of at least one child, lastType
\* otherwise.
C4_SeqUnionAsStated ==
  (Visited({"SEQ"}) /\ AllTyped)
    => /\ Accepted
       /\ last.type = IF AnyCanError THEN <<"UNIONTYPE", LastType, ERROR>>
                      ELSE LastType

\* C4 (amended): a sequence whose children all carry a type is accepted; its
\* type is a fresh UNIONTYPE(lastType, ERROR) when some child can error and
\* ERROR is not already a subtype of lastType, and lastType itself otherwise
\* (in particular when lastType is the bare ERROR marker or a union that
\* holds it).
C4_SeqUnion ==
  (Visited({"SEQ"}) /\ AllTyped)
    => /\ Accepted
       /\ last.type = IF AnyCanError /\ ~CanError(LastType)
                      THEN <<"UNIONTYPE", LastType, ERROR>>
                      ELSE LastType

\* a sequence that can error through a child that is not its last
C4_Witness ==
  /\ Visited({"SEQ"}) /\ AllTyped /\ Accepted
  /\ AnyCanError /\ ~CanError(LastType)
  /\ last.type = <<"UNIONTYPE", LastType, ERROR>>

RECURSIVE HasErrorElement(_)
HasErrorElement(t) ==
  /\ t # NULL
  /\ ast_id(t) = "TUPLETYPE"
  /\ \E i \in 2..Len(t) : t[i] = ERROR \/ HasErrorElement(t[i])

ScopeMethods ==
  {Scope[name].node : name \in {x \in DOMAIN Scope : Scope[x].kind \in MethodKinds}}

BadReceiver == "receiver capability is not a subtype of method capability"

\* C6: a CALL whose callee has the method type of a NEW/BE/FUN declaration is
\* accepted iff the receiver capability is a sub-capability of the method's,
\* FATAL with "receiver capability is not a subtype of method capability"
\* otherwise; accepted, its type is the result declared by the declaration,
\* with a parameter list or without.
C6_CallOfMethod ==
  (Visited({"CALL"}) /\ ast_id(KidType(1)) \in MethodKinds)
    => /\ Accepted <=> is_cap_sub_cap(last.arg.rcap, cap_for_fun(KidType(1)))
       /\ ~Accepted => Fatal(<<BadReceiver>>)
       /\ \E d \in ScopeMethods : KidType(1) = type_for_fun(d)
       /\ \A d \in ScopeMethods :
            (Accepted /\ KidType(1) = type_for_fun(d))
              => last.type = ast_childidx(d, 4)

\* an accepted call of a method declared with a parameter list
C6_Witness ==
  /\ Visited({"CALL"}) /\ Accepted
  /\ \E d \in ScopeMethods :
       /\ KidType(1) = type_for_fun(d)
       /\ ast_id(ast_childidx(d, 3)) = "PARAMS"
       /\ last.type = ast_childidx(d, 4)

\* a positional DOT with index i on the tuple expression visited last
DotOnLast(i) ==
  type_expr([kind |-> "DOT",
             kids |-> <<Summary(last.kind, last.kids, last.arg, last.type)>>,
             arg |-> [right |-> <<"INT", i>>, found |-> FALSE]])

\* C7: a TUPLE with one child gets that child's type; on a TUPLE with n >= 2
\* children a positional DOT with index i < n is typed with the type of
\* child i, and every index i >= n is rejected with "tuple index is out of
\* bounds".
C7_TupleRoundTrip ==
  (Visited({"TUPLE"}) /\ Accepted)
    => /\ Len(last.kids) = 1 => last.type = KidType(1)
       /\ Len(last.kids) >= 2 =>
            \A i \in 0..MaxIndex :
              DotOnLast(i) = IF i < Len(last.kids) THEN Accept(KidType(i + 1))
                             ELSE Reject(<<"tuple index is out of bounds">>)

\* the types of the branches of the IF visited last
ThenType == KidType(2)
ElseType == IF Len(last.kids) = 3 THEN KidType(3) ELSE None

\* C8: an IF is rejected with "condition must be a Bool" iff its condition's
\* type is not a subtype of Bool; otherwise it is accepted and typed with the
\* supertype of thenType and elseType (None when there is no else branch)
\* when one is a subtype of the other, with UNIONTYPE(thenType, elseType)
\* when not.
C8_IfUnion ==
  Visited({"IF"})
    => IF ~is_subtype(KidType(1), Bool)
       THEN Fatal(<<"condition must be a Bool">>)
       ELSE /\ Accepted
            /\ IF is_subtype(ThenType, ElseType) \/ is_subtype(ElseType, ThenType)
               THEN /\ last.type \in {ThenType, ElseType}
                    /\ is_subtype(ThenType, last.type)
                    /\ is_subtype(ElseType, last.type)
               ELSE last.type = <<"UNIONTYPE", ThenType, ElseType>>

\* `if c then 1`: typed UNIONTYPE(IntLiteral, None)
C8_Witness ==
  /\ Visited({"IF"}) /\ Accepted /\ Len(last.kids) = 2
  /\ last.type = <<"UNIONTYPE", IntLiteral, None>>

\* the result a return is compared with in the enclosing method
ReturnResult ==
  IF ast_id(last.arg.fun) = "FUN" /\ ast_id(ast_childidx(last.arg.fun, 4)) # "NONE"
  THEN ast_childidx(last.arg.fun, 4) ELSE None

\* C9: a RETURN is accepted iff it is inside a method body, has no following
\* sibling, the method is not a constructor, and the returned type is a
\* subtype of None in a behaviour, of the declared result (None when absent)
\* in a function; it is FATAL otherwise, always so in a constructor.
C9_ReturnAccepted ==
  Visited({"RETURN"})
    => /\ last.ret \in {"OK", "FATAL"}
       /\ Accepted <=> (/\ last.arg.fun # NULL
                        /\ ~last.arg.hasNext
                        /\ ast_id(last.arg.fun) \in {"BE", "FUN"}
                        /\ is_subtype(KidType(1), ReturnResult))
       /\ (last.arg.fun # NULL /\ ast_id(last.arg.fun) = "NEW")
            => (last.ret = "FATAL" /\ InDiags("cannot return in a constructor"))

\* a return accepted in a function whose declared result is a proper
\* supertype of the returned type
C9_Witness ==
  /\ Visited({"RETURN"}) /\ Accepted
  /\ ast_id(last.arg.fun) = "FUN"
  /\ KidType(1) # ReturnResult
  /\ ReturnResult # None

IsArithmetic(t) == is_subtype(t, nominal_builtin("Arithmetic"))

\* C10: a comparison or order expression is accepted iff both operand types
\* are subtypes of Arithmetic and one is a subtype of the other, or the right
\* type is a subtype of the left type; it is FATAL with "right side must be a
\* subtype of left side" otherwise; accepted, its type is Bool.
C10_CompareOrder ==
  Visited({"EQ", "NE", "LT", "LE", "GE", "GT"})
    => LET l == KidType(1)
           r == KidType(2)
       IN IF \/ /\ IsArithmetic(l) /\ IsArithmetic(r)
                /\ (is_subtype(l, r) \/ is_subtype(r, l))
             \/ is_subtype(r, l)
          THEN Accepted /\ last.type = Bool
          ELSE Fatal(<<"right side must be a subtype of left side">>)

\* an order expression accepted on the arithmetic path alone: the right type
\* is not a subtype of the left type
C10_Witness ==
  /\ Visited({"LT", "LE", "GE", "GT"}) /\ Accepted
  /\ ~is_subtype(KidType(2), KidType(1))
  /\ last.type = Bool

\* the field or parameter declaration visited last
FieldVisited == Visited({"FVAR", "FLET", "PARAM"})
FieldType == last.arg.type
HasFieldType == ast_id(FieldType) # "NONE"
HasInit == last.kids # <<>>
NeedsTypeOrInit == "field/param needs a type or an initialiser"
InitNotSubtype ==
  "field/param initialiser is not a subtype of the field/param type"

\* C11: a field or parameter declaration with declared type T and initialiser
\* I, either possibly absent, is rejected iff both are absent ("field/param
\* needs a type or an initialiser") or both are present and typeof(I) is not
\* a subtype of T ("field/param initialiser is not a subtype of the
\* field/param type"); when accepted its type is T if T is present and
\* typeof(I) otherwise.
C11_FieldRules ==
  FieldVisited =>
    IF ~HasFieldType /\ ~HasInit THEN Fatal(<<NeedsTypeOrInit>>)
    ELSE IF HasFieldType /\ HasInit /\ ~is_subtype(KidType(1), FieldType)
    THEN Fatal(<<InitNotSubtype>>)
    ELSE /\ Accepted
         /\ last.diags = <<>>
         /\ last.type = IF HasFieldType THEN FieldType ELSE KidType(1)

\* a declaration accepted with a declared type and an initialiser of another
\* type
C11_Witness ==
  /\ FieldVisited /\ Accepted
  /\ HasFieldType /\ HasInit
  /\ KidType(1) # FieldType
  /\ last.type = FieldType

\* the type nodes of the visit recorded in `last`
Ledger == type_nodes(last)
Returned == last # Idle /\ last.ret \in {"OK", "FATAL"}
\* a fresh node is attached or was released once; a node that was attached
\* or borrowed was not released
Disciplined(c) ==
  IF c.own = "fresh"
  THEN (c.parent /\ c.freed = 0) \/ (~c.parent /\ c.freed = 1)
  ELSE c.freed = 0
Leaked(c) == c.own = "fresh" /\ ~c.parent /\ c.freed = 0

\* C12: when a call of type_expr returns AST_OK or AST_FATAL, every type node
\* freshly made during the call is attached or has been released exactly
\* once, and no type node attached to an expression or borrowed from a
\* declaration has been released.
C12_ResourceDiscipline ==
  Returned => \A k \in DOMAIN Ledger : Disciplined(Ledger[k])

\* The second run visits the node recorded in `last` again: its children carry
\* the types the pass gave them, the declarations it reads are those of the
\* first run, its own slot holds the type of the first run.
SecondRun ==
  type_expr([kind |-> last.kind, kids |-> last.kids, arg |-> last.arg])
SlotAfterSecondRun == IF SecondRun.set THEN SecondRun.type ELSE last.type

\* C13: a second run over what the first run accepted is a no-op: after the
\* first run every visited expression node is typed (the package prefix of a
\* DOT set aside), and the second run emits no diagnostic, returns AST_OK and
\* leaves the node's type equal to the type attached by the first run.
C13_SecondRunNoOp ==
  (last # Idle /\ Accepted /\ ~PackagePrefix) =>
    /\ Visited(ExprKinds) => last.type # NULL
    /\ SecondRun.ret = "OK"
    /\ SecondRun.diags = <<>>
    /\ SlotAfterSecondRun = last.type

\* the kinds type_expr has a case for
KnownKinds == ExprKinds \cup DeclKinds \cup StubKinds \cup {"CONSUME", "QUALIFY"}
\* no type that another node or a declaration holds was released
OthersKept == \A k \in DOMAIN Ledger : Ledger[k].own # "fresh" => Ledger[k].freed = 0

\* C14: when type_expr returns AST_FATAL for a node, the type slot of the node
\* is empty as before the call and the types of the other nodes are as they
\* were; the kinds VAR, LET, FOR, TRY, ARRAY, OBJECT, CONSUME and QUALIFY are
\* always AST_FATAL; for a kind the dispatcher does not know type_expr returns
\* AST_OK, emits nothing and changes no type slot.
C14_FailureFrame ==
  /\ (last # Idle /\ last.ret = "FATAL") => (last.type = NULL /\ OthersKept)
  /\ Visited(StubKinds \cup {"CONSUME", "QUALIFY"}) => last.ret = "FATAL"
  /\ (last # Idle /\ last.kind \notin KnownKinds) =>
       /\ Accepted
       /\ last.type = NULL
       /\ last.diags = <<>>
       /\ DOMAIN Ledger = {}

\* an arithmetic operator rejected although its left side is arithmetic
C14_Witness ==
  /\ Visited({"MULTIPLY", "DIVIDE", "MOD", "PLUS"})
  /\ last.ret = "FATAL"
  /\ type_arithmetic(KidType(1)) # NULL
  /\ last.type = NULL

====
